---- MODULE Spec2Model ----
(***************************************************************************)
(* Provisioning of an Azure SQL database (pkg/services/sqldb):             *)
(* ValidateProvisioningParameters, the two provisioning steps preProvision *)
(* and deployARMTemplate, and buildARMTemplateParameters.                  *)
(*                                                                         *)
(* Go strings are sequences of one-character strings; "" is << >>.         *)
(* A nil byte slice (a nil net.IP) is the empty sequence NilIP: Go's nil    *)
(* slice has length 0 and no parser below returns a non-nil empty slice.   *)
(***************************************************************************)
EXTENDS Integers, Sequences, FiniteSets, TLC

NilIP == << >>

\* ------------------------------------------------------------------------
\* Bounds of the model.

\* Number of runs of the step pipeline for one instance (first run + re-runs).
MaxAttempts == 2

\* ------------------------------------------------------------------------
\* net.ParseIP, net.IP.To4, bytes.Compare as used by the validator.

IPv4len == 4
IPv6len == 16
\* net.dtoi / net.xtoi overflow limit ("big")
big == 16777215

Digits == <<"0", "1", "2", "3", "4", "5", "6", "7", "8", "9">>
HexDigits == <<"0", "1", "2", "3", "4", "5", "6", "7", "8", "9",
               "a", "b", "c", "d", "e", "f">>

HexUpper == <<"0", "1", "2", "3", "4", "5", "6", "7", "8", "9",
              "A", "B", "C", "D", "E", "F">>

IsDigit(c) == \E i \in 1..Len(Digits) : Digits[i] = c
IsHex(c) == \E i \in 1..Len(HexDigits) : HexDigits[i] = c \/ HexUpper[i] = c
HexVal(c) ==
    (CHOOSE i \in 1..Len(HexDigits) : HexDigits[i] = c \/ HexUpper[i] = c) - 1

Drop(s, n) == SubSeq(s, n + 1, Len(s))

\* net.dtoi: decimal prefix of s -> [n, c (characters consumed), ok]
RECURSIVE dtoiFrom(_, _, _)
dtoiFrom(s, i, n) ==
    IF i <= Len(s) /\ IsDigit(s[i])
    THEN LET m == n * 10 + HexVal(s[i])
         IN  IF m >= big THEN [n |-> big, c |-> i, ok |-> FALSE]
             ELSE dtoiFrom(s, i + 1, m)
    ELSE IF i = 1 THEN [n |-> 0, c |-> 0, ok |-> FALSE]
         ELSE [n |-> n, c |-> i - 1, ok |-> TRUE]

dtoi(s) == dtoiFrom(s, 1, 0)

\* net.xtoi: hexadecimal prefix of s -> [n, c, ok]
RECURSIVE xtoiFrom(_, _, _)
xtoiFrom(s, i, n) ==
    IF i <= Len(s) /\ IsHex(s[i])
    THEN LET m == n * 16 + HexVal(s[i])
         IN  IF m >= big THEN [n |-> 0, c |-> i, ok |-> FALSE]
             ELSE xtoiFrom(s, i + 1, m)
    ELSE IF i = 1 THEN [n |-> 0, c |-> 0, ok |-> FALSE]
         ELSE [n |-> n, c |-> i - 1, ok |-> TRUE]

xtoi(s) == xtoiFrom(s, 1, 0)

\* The 16-byte form net.IPv4(a, b, c, d) returns (v4InV6Prefix + 4 bytes).
IPv4(a, b, c, d) == <<0, 0, 0, 0, 0, 0, 0, 0, 0, 0, 255, 255, a, b, c, d>>

\* net.parseIPv4: the loop over the four octets; p is the octets read so far.
RECURSIVE parseIPv4From(_, _)
parseIPv4From(s, p) ==
    IF Len(p) = IPv4len
    THEN IF Len(s) # 0 THEN NilIP ELSE IPv4(p[1], p[2], p[3], p[4])
    ELSE IF Len(s) = 0 THEN NilIP
    ELSE IF Len(p) > 0 /\ s[1] # "." THEN NilIP
    ELSE LET t == IF Len(p) > 0 THEN Drop(s, 1) ELSE s
             r == dtoi(t)
         IN  IF ~r.ok \/ r.n > 255 THEN NilIP
             ELSE parseIPv4From(Drop(t, r.c), Append(p, r.n))

parseIPv4(s) == parseIPv4From(s, << >>)

Zeros(n) == [k \in 1..n |-> 0]

\* net.parseIPv6, the loop "parsing hex numbers followed by colon": ip holds
\* the bytes saved so far (i = Len(ip)), ellipsis the position of "::" or -1.
\* Yields LoopFail (return nil), or the loop's exit state.
LoopFail == [ok |-> FALSE]

RECURSIVE parseIPv6Loop(_, _, _)
parseIPv6Loop(s, ip, ellipsis) ==
    IF Len(ip) >= IPv6len THEN [ok |-> TRUE, s |-> s, ip |-> ip, ellipsis |-> ellipsis]
    ELSE
    LET r == xtoi(s)
        i == Len(ip)
    IN  IF ~r.ok \/ r.n > 65535 THEN LoopFail
        ELSE IF r.c < Len(s) /\ s[r.c + 1] = "."
        THEN \* trailing IPv4
             IF ellipsis < 0 /\ i # IPv6len - IPv4len THEN LoopFail
             ELSE IF i + IPv4len > IPv6len THEN LoopFail
             ELSE LET ip4 == parseIPv4(s)
                  IN  IF ip4 = NilIP THEN LoopFail
                      ELSE [ok |-> TRUE, s |-> << >>,
                            ip |-> ip \o SubSeq(ip4, 13, 16),
                            ellipsis |-> ellipsis]
        ELSE LET ip2 == ip \o <<r.n \div 256, r.n % 256>>
                 s2 == Drop(s, r.c)
             IN  IF Len(s2) = 0
                 THEN [ok |-> TRUE, s |-> s2, ip |-> ip2,
                       ellipsis |-> ellipsis]
                 ELSE IF s2[1] # ":" \/ Len(s2) = 1 THEN LoopFail
                 ELSE LET s3 == Drop(s2, 1)
                      IN  IF s3[1] = ":"
                          THEN IF ellipsis >= 0 THEN LoopFail
                               ELSE IF Len(s3) = 1
                               THEN [ok |-> TRUE, s |-> << >>, ip |-> ip2,
                                     ellipsis |-> Len(ip2)]
                               ELSE parseIPv6Loop(Drop(s3, 1), ip2, Len(ip2))
                          ELSE parseIPv6Loop(s3, ip2, ellipsis)

\* net.parseIPv6 after the loop: whole string used, ellipsis expanded.
parseIPv6End(st) ==
    IF ~st.ok THEN NilIP
    ELSE IF Len(st.s) # 0 THEN NilIP
    ELSE IF Len(st.ip) < IPv6len
    THEN IF st.ellipsis < 0 THEN NilIP
         ELSE SubSeq(st.ip, 1, st.ellipsis)
              \o Zeros(IPv6len - Len(st.ip))
              \o SubSeq(st.ip, st.ellipsis + 1, Len(st.ip))
    ELSE IF st.ellipsis >= 0 THEN NilIP
    ELSE st.ip

parseIPv6(s) ==
    IF Len(s) >= 2 /\ s[1] = ":" /\ s[2] = ":"
    THEN IF Len(s) = 2 THEN Zeros(IPv6len)
         ELSE parseIPv6End(parseIPv6Loop(Drop(s, 2), << >>, 0))
    ELSE parseIPv6End(parseIPv6Loop(s, << >>, -1))

\* net.ParseIP: the first '.' or ':' decides the syntax tried.
RECURSIVE ParseIPFrom(_, _)
ParseIPFrom(s, i) ==
    IF i > Len(s) THEN NilIP
    ELSE IF s[i] = "." THEN parseIPv4(s)
    ELSE IF s[i] = ":" THEN parseIPv6(s)
    ELSE ParseIPFrom(s, i + 1)

ParseIP(s) == ParseIPFrom(s, 1)

\* net.IP.To4: the 4-byte form of an IPv4 address, nil for anything else
\* (nil receiver included).
To4(ip) ==
    IF ip = NilIP THEN NilIP
    ELSE IF Len(ip) = IPv4len THEN ip
    ELSE IF /\ Len(ip) = IPv6len
            /\ \A k \in 1..10 : ip[k] = 0
            /\ ip[11] = 255
            /\ ip[12] = 255
    THEN SubSeq(ip, 13, 16)
    ELSE NilIP

\* bytes.Compare: -1, 0, +1 by lexicographic order; a nil slice is empty.
RECURSIVE CompareFrom(_, _, _)
CompareFrom(a, b, i) ==
    IF i > Len(a) /\ i > Len(b) THEN 0
    ELSE IF i > Len(a) THEN -1
    ELSE IF i > Len(b) THEN 1
    ELSE IF a[i] < b[i] THEN -1
    ELSE IF a[i] > b[i] THEN 1
    ELSE CompareFrom(a, b, i + 1)

\* Mutant of Compare: the operands swapped.
CompareSwapped(a, b) == CompareFrom(b, a, 1)

Compare(a, b) == CompareFrom(a, b, 1)

\* ------------------------------------------------------------------------
\* Values.

EmptyString == << >>

\* An interface{} value: its dynamic type and its printed form.
StringValue(str) == [type |-> "string", val |-> str]
NilValue == [type |-> "nil", val |-> << >>]
NumberValue(str) == [type |-> "float64", val |-> str]

\* Go map lookup m[k]: the zero value (a nil interface) for a missing key.
Lookup(m, k) == IF k \in DOMAIN m THEN m[k] ELSE NilValue

\* A Go error; NoError is nil.  field is set for a service.ValidationError.
NoError == [field |-> "", issue |-> "", arg |-> << >>]
NewValidationError(field, issue, arg) ==
    [field |-> field, issue |-> issue, arg |-> arg]
NewError(issue, arg) == [field |-> "", issue |-> issue, arg |-> arg]

\* types.go: GetEmptyProvisioningContext returns &mssqlProvisioningContext{}
GetEmptyProvisioningContext ==
    [ARMDeploymentName          |-> EmptyString,
     ServerName                 |-> EmptyString,
     IsNewServer                |-> FALSE,
     AdministratorLogin         |-> EmptyString,
     AdministratorLoginPassword |-> EmptyString,
     DatabaseName               |-> EmptyString,
     FullyQualifiedDomainName   |-> EmptyString]

\* ------------------------------------------------------------------------
\* ValidateProvisioningParameters (provision.go 17-80).
\* pp: the request; servers: s.mssqlConfig.Servers.  Returns the error.

\* Lines 27-37: a server name must be a key of the registry.
checkServerName(pp, servers) ==
    IF pp.ServerName # EmptyString /\ pp.ServerName \notin DOMAIN servers
    THEN NewValidationError("serverName",
             "can't find serverName in Azure SQL Server configuration",
             pp.ServerName)
    ELSE NoError

\* Mutant of checkFirewallBothSet: only a missing end is looked for.
checkFirewallBothSetEndOnly(pp) ==
    IF pp.FirewallIPStart # EmptyString /\ pp.FirewallIPEnd = EmptyString
    THEN NewValidationError("firewallEndIPAddress",
             "must be set when firewallStartIPAddress is set", EmptyString)
    ELSE NoError

\* Mutant of checkFirewallBothSet: each error carries the other's field.
checkFirewallBothSetFieldsSwapped(pp) ==
    IF pp.FirewallIPStart # EmptyString \/ pp.FirewallIPEnd # EmptyString
    THEN IF pp.FirewallIPStart = EmptyString
         THEN NewValidationError("firewallEndIPAddress",
                  "must be set when firewallEndIPAddress is set", EmptyString)
         ELSE IF pp.FirewallIPEnd = EmptyString
         THEN NewValidationError("firewallStartIPAddress",
                  "must be set when firewallStartIPAddress is set", EmptyString)
         ELSE NoError
    ELSE NoError

\* Lines 38-51: the firewall bounds are set together.
checkFirewallBothSet(pp) ==
    IF pp.FirewallIPStart # EmptyString \/ pp.FirewallIPEnd # EmptyString
    THEN IF pp.FirewallIPStart = EmptyString
         THEN NewValidationError("firewallStartIPAddress",
                  "must be set when firewallEndIPAddress is set", EmptyString)
         ELSE IF pp.FirewallIPEnd = EmptyString
         THEN NewValidationError("firewallEndIPAddress",
                  "must be set when firewallStartIPAddress is set", EmptyString)
         ELSE NoError
    ELSE NoError

\* Lines 52-78: both bounds parse, and start <= end.
checkFirewallRange(pp) ==
    LET startIP == ParseIP(pp.FirewallIPStart)
        endIP == ParseIP(pp.FirewallIPEnd)
        startBytes == To4(startIP)
        endBytes == To4(endIP)
    IN  IF pp.FirewallIPStart # EmptyString /\ startIP = NilIP
        THEN NewValidationError("firewallStartIPAddress", "invalid value",
                 pp.FirewallIPStart)
        ELSE IF pp.FirewallIPEnd # EmptyString /\ endIP = NilIP
        THEN NewValidationError("firewallEndIPAddress", "invalid value",
                 pp.FirewallIPEnd)
        ELSE IF Compare(startBytes, endBytes) > 0
        THEN NewValidationError("firewallEndIPAddress",
                 "invalid value. must be greater than or equal to firewallStartIPAddress",
                 pp.FirewallIPEnd)
        ELSE NoError

\* Mutant of ValidateProvisioningParameters: the firewall rules come first.
ValidateFirewallFirst(pp, servers) ==
    IF checkFirewallBothSet(pp) # NoError
    THEN checkFirewallBothSet(pp)
    ELSE IF checkFirewallRange(pp) # NoError
    THEN checkFirewallRange(pp)
    ELSE checkServerName(pp, servers)

ValidateProvisioningParameters(pp, servers) ==
    IF checkServerName(pp, servers) # NoError
    THEN checkServerName(pp, servers)
    ELSE IF checkFirewallBothSet(pp) # NoError
    THEN checkFirewallBothSet(pp)
    ELSE checkFirewallRange(pp)

\* ------------------------------------------------------------------------
\* GetProvisioner (provision.go 82-89): the ordered steps.

\* Mutant of GetProvisioner: the steps in the other order.
GetProvisionerDeployFirst == <<"deployARMTemplate", "preProvision">>

GetProvisioner == <<"preProvision", "deployARMTemplate">>

\* ------------------------------------------------------------------------
\* Generators.  rnd counts the values drawn so far; the n-th draw is rendered
\* in decimal behind a letter naming the generator.

RECURSIVE Itoa(_)
Itoa(n) == IF n < 10 THEN <<Digits[n + 1]>>
           ELSE Append(Itoa(n \div 10), Digits[(n % 10) + 1])

\* uuid.NewV4().String()
NewV4String(n) == <<"u">> \o Itoa(n)
\* generate.NewIdentifier()
NewIdentifier(n) == <<"i">> \o Itoa(n)
\* generate.NewPassword()
NewPassword(n) == <<"p">> \o Itoa(n)

\* ------------------------------------------------------------------------
\* Cloud environment: azure.GetConfig() and az.EnvironmentFromName.

\* az.EnvironmentFromName: the known environments and their
\* SQLDatabaseDNSSuffix.
SQLDatabaseDNSSuffix ==
    [AZUREPUBLICCLOUD |-> <<"w", ".", "n", "e", "t">>,
     AZURECHINACLOUD  |-> <<"c", ".", "c", "n">>]

EnvironmentFromName(name) ==
    IF name \in DOMAIN SQLDatabaseDNSSuffix
    THEN [err |-> NoError, SQLDatabaseDNSSuffix |-> SQLDatabaseDNSSuffix[name]]
    ELSE [err |-> NewError("There is no cloud environment matching the name", << >>),
          SQLDatabaseDNSSuffix |-> EmptyString]

\* What azure.GetConfig() can return: a configuration naming an environment,
\* or an error.
GetConfigResults ==
    { [err |-> NoError, Environment |-> "AZUREPUBLICCLOUD"],
      [err |-> NoError, Environment |-> "AZUREMOONCLOUD"],
      [err |-> NewError("error parsing azure configuration", << >>),
       Environment |-> ""] }

\* ------------------------------------------------------------------------
\* preProvision (provision.go 91-153).
\* pc: the context object instance.ProvisioningContext points to; pp: the
\* request; servers: the registry; n: draws made so far; cfg: what
\* azure.GetConfig() returns in this call.
\* Returns ok/ctx/err (the returned pair), mem (the context object as the
\* call leaves it: it is written in place), rnd (draws made afterwards).

\* (a nil returned context is rendered as the empty context with ok = FALSE)

StepFailure(err, mem, n) ==
    [ok |-> FALSE, ctx |-> GetEmptyProvisioningContext, err |-> err,
     mem |-> mem, rnd |-> n]
StepSuccess(ctx, n) ==
    [ok |-> TRUE, ctx |-> ctx, err |-> NoError, mem |-> ctx, rnd |-> n]

\* Mutant of preProvisionNewServer: a database name already in the context is
\* kept.
preProvisionNewServerKeepsDatabase(pc, n) ==
    StepSuccess(
        [pc EXCEPT !.ARMDeploymentName = NewV4String(n + 1),
                   !.ServerName = NewV4String(n + 2),
                   !.IsNewServer = TRUE,
                   !.AdministratorLogin = NewIdentifier(n + 3),
                   !.AdministratorLoginPassword = NewPassword(n + 4),
                   !.DatabaseName = IF pc.DatabaseName # EmptyString
                                    THEN pc.DatabaseName
                                    ELSE NewIdentifier(n + 5)],
        n + 5)

preProvisionNewServer(pc, n) ==
    StepSuccess(
        [pc EXCEPT !.ARMDeploymentName = NewV4String(n + 1),
                   !.ServerName = NewV4String(n + 2),
                   !.IsNewServer = TRUE,
                   !.AdministratorLogin = NewIdentifier(n + 3),
                   !.AdministratorLoginPassword = NewPassword(n + 4),
                   !.DatabaseName = NewIdentifier(n + 5)],
        n + 5)

\* Mutant of preProvisionExistingServer: the request's server name is used
\* where the registry entry's is.
preProvisionExistingServerRequestName(pc, pp, servers, n, cfg) ==
    LET server == servers[pp.ServerName]
        azureEnvironment == EnvironmentFromName(cfg.Environment)
        pc1 == [pc EXCEPT !.ARMDeploymentName = NewV4String(n + 1),
                          !.ServerName = pp.ServerName,
                          !.IsNewServer = FALSE,
                          !.AdministratorLogin = server.AdministratorLogin,
                          !.AdministratorLoginPassword =
                              server.AdministratorLoginPassword,
                          !.DatabaseName = NewIdentifier(n + 2)]
    IN  IF cfg.err # NoError THEN StepFailure(cfg.err, pc1, n + 2)
        ELSE IF azureEnvironment.err # NoError
        THEN StepFailure(azureEnvironment.err, pc1, n + 2)
        ELSE StepSuccess(
                 [pc1 EXCEPT !.FullyQualifiedDomainName =
                      pp.ServerName \o <<".">>
                          \o azureEnvironment.SQLDatabaseDNSSuffix],
                 n + 2)

\* Mutant of preProvisionExistingServer: the administrator password is
\* generated instead of copied.
preProvisionExistingServerNewPassword(pc, pp, servers, n, cfg) ==
    LET server == servers[pp.ServerName]
        azureEnvironment == EnvironmentFromName(cfg.Environment)
        pc1 == [pc EXCEPT !.ARMDeploymentName = NewV4String(n + 1),
                          !.ServerName = server.ServerName,
                          !.IsNewServer = FALSE,
                          !.AdministratorLogin = server.AdministratorLogin,
                          !.AdministratorLoginPassword = NewPassword(n + 2),
                          !.DatabaseName = NewIdentifier(n + 3)]
    IN  IF cfg.err # NoError THEN StepFailure(cfg.err, pc1, n + 3)
        ELSE IF azureEnvironment.err # NoError
        THEN StepFailure(azureEnvironment.err, pc1, n + 3)
        ELSE StepSuccess(
                 [pc1 EXCEPT !.FullyQualifiedDomainName =
                      server.ServerName \o <<".">>
                          \o azureEnvironment.SQLDatabaseDNSSuffix],
                 n + 3)

preProvisionExistingServer(pc, pp, servers, n, cfg) ==
    IF pp.ServerName \notin DOMAIN servers
    THEN StepFailure(
             NewError("can't find serverName in Azure SQL Server configuration",
                      pp.ServerName), pc, n)
    ELSE
    LET server == servers[pp.ServerName]
        pc1 == [pc EXCEPT !.ARMDeploymentName = NewV4String(n + 1),
                          !.ServerName = server.ServerName,
                          !.IsNewServer = FALSE,
                          !.AdministratorLogin = server.AdministratorLogin,
                          !.AdministratorLoginPassword =
                              server.AdministratorLoginPassword,
                          !.DatabaseName = NewIdentifier(n + 2)]
        azureEnvironment == EnvironmentFromName(cfg.Environment)
    IN  IF cfg.err # NoError THEN StepFailure(cfg.err, pc1, n + 2)
        ELSE IF azureEnvironment.err # NoError
        THEN StepFailure(azureEnvironment.err, pc1, n + 2)
        ELSE StepSuccess(
                 [pc1 EXCEPT !.FullyQualifiedDomainName =
                      server.ServerName \o <<".">>
                          \o azureEnvironment.SQLDatabaseDNSSuffix],
                 n + 2)

preProvision(pc, pp, servers, n, cfg) ==
    IF pp.ServerName = EmptyString
    THEN preProvisionNewServer(pc, n)
    ELSE preProvisionExistingServer(pc, pp, servers, n, cfg)

\* ------------------------------------------------------------------------
\* buildARMTemplateParameters (provision.go 155-181).

\* The seven parameters always built (lines 160-170).
baseParameters(plan, provisioningContext) ==
    [serverName |-> StringValue(provisioningContext.ServerName),
     administratorLogin |->
         StringValue(provisioningContext.AdministratorLogin),
     administratorLoginPassword |->
         StringValue(provisioningContext.AdministratorLoginPassword),
     databaseName |-> StringValue(provisioningContext.DatabaseName),
     edition |-> Lookup(plan.Extended, "edition"),
     requestedServiceObjectiveName |->
         Lookup(plan.Extended, "requestedServiceObjectiveName"),
     maxSizeBytes |-> Lookup(plan.Extended, "maxSizeBytes")]

\* Mutant of buildARMTemplateParameters: the end address is stored under the
\* start address's key.
buildARMTemplateParametersOneKey(plan, provisioningContext, provisioningParameters) ==
    LET p == baseParameters(plan, provisioningContext)
        p1 == IF provisioningParameters.FirewallIPStart # EmptyString
              THEN ("firewallStartIpAddress" :>
                        StringValue(provisioningParameters.FirewallIPStart)) @@ p
              ELSE p
    IN  IF provisioningParameters.FirewallIPEnd # EmptyString
        THEN ("firewallStartIpAddress" :>
                  StringValue(provisioningParameters.FirewallIPEnd)) @@ p1
        ELSE p1

\* Mutant of buildARMTemplateParameters: both addresses are included as soon
\* as one is set.
buildARMTemplateParametersBothKeys(plan, provisioningContext, provisioningParameters) ==
    LET p == baseParameters(plan, provisioningContext)
    IN  IF \/ provisioningParameters.FirewallIPStart # EmptyString
           \/ provisioningParameters.FirewallIPEnd # EmptyString
        THEN ("firewallStartIpAddress" :>
                  StringValue(provisioningParameters.FirewallIPStart))
             @@ ("firewallEndIpAddress" :>
                     StringValue(provisioningParameters.FirewallIPEnd))
             @@ p
        ELSE p

buildARMTemplateParameters(plan, provisioningContext, provisioningParameters) ==
    LET p == baseParameters(plan, provisioningContext)
        p1 == IF provisioningParameters.FirewallIPStart # EmptyString
              THEN ("firewallStartIpAddress" :>
                        StringValue(provisioningParameters.FirewallIPStart)) @@ p
              ELSE p
    IN  IF provisioningParameters.FirewallIPEnd # EmptyString
        THEN ("firewallEndIpAddress" :>
                  StringValue(provisioningParameters.FirewallIPEnd)) @@ p1
        ELSE p1

\* ------------------------------------------------------------------------
\* The deployment engine, s.armDeployer.Deploy: what a call can return.

EmptyMap == << >>

EngineResults ==
    { [err |-> NoError,
       outputs |-> ("fullyQualifiedDomainName" :>
                        StringValue(<<"s", ".", "w", ".", "n", "e", "t">>))],
      [err |-> NoError,
       outputs |-> ("fullyQualifiedDomainName" :> StringValue(EmptyString))],
      [err |-> NoError,
       outputs |-> ("fullyQualifiedDomainName" :> NumberValue(<<"4", "2">>))],
      [err |-> NoError, outputs |-> EmptyMap],
      [err |-> NewError("deployment failed", << >>), outputs |-> EmptyMap] }

\* One invocation of Deploy, by its arguments.
DeployCall(deploymentName, resourceGroup, location, template, armParams, tags) ==
    [deploymentName |-> deploymentName, resourceGroup |-> resourceGroup,
     location |-> location, template |-> template, goParams |-> NilValue,
     armParams |-> armParams, tags |-> tags]

\* ------------------------------------------------------------------------
\* deployARMTemplate (provision.go 183-258).
\* pc, pp as in preProvision; spc: instance.StandardProvisioningContext;
\* res: what the engine returns to the call this step makes.
\* Returns ok/ctx/err, mem, and calls: the engine invocations made, in order.

DeployFailure(err, mem, calls) ==
    [ok |-> FALSE, ctx |-> GetEmptyProvisioningContext, err |-> err,
     mem |-> mem, calls |-> calls]
DeploySuccess(ctx, calls) ==
    [ok |-> TRUE, ctx |-> ctx, err |-> NoError, mem |-> ctx, calls |-> calls]

\* Mutant of deployARMTemplateNewServer: the domain name output is stored
\* without testing the type assertion.
deployARMTemplateNewServerUnchecked(pc, pp, spc, plan, res) ==
    LET armTemplateParameters == buildARMTemplateParameters(plan, pc, pp)
        call == DeployCall(pc.ARMDeploymentName, spc.ResourceGroup,
                           spc.Location, "armTemplateNewServerBytes",
                           armTemplateParameters, spc.Tags)
        fullyQualifiedDomainName ==
            Lookup(res.outputs, "fullyQualifiedDomainName")
    IN  IF res.err # NoError
        THEN DeployFailure(NewError("error deploying ARM template", << >>),
                           pc, <<call>>)
        ELSE DeploySuccess(
                 [pc EXCEPT !.FullyQualifiedDomainName =
                                fullyQualifiedDomainName.val],
                 <<call>>)

\* Mutant of deployARMTemplateNewServer: a failed deployment is tried once
\* more.
deployARMTemplateNewServerRetry(pc, pp, spc, plan, res) ==
    LET armTemplateParameters == buildARMTemplateParameters(plan, pc, pp)
        call == DeployCall(pc.ARMDeploymentName, spc.ResourceGroup,
                           spc.Location, "armTemplateNewServerBytes",
                           armTemplateParameters, spc.Tags)
        fullyQualifiedDomainName ==
            Lookup(res.outputs, "fullyQualifiedDomainName")
    IN  IF res.err # NoError
        THEN DeployFailure(NewError("error deploying ARM template", << >>),
                           pc, <<call, call>>)
        ELSE IF fullyQualifiedDomainName.type # "string"
        THEN DeployFailure(
                 NewError("error retrieving fully qualified domain name from deployment",
                          << >>), pc, <<call>>)
        ELSE DeploySuccess(
                 [pc EXCEPT !.FullyQualifiedDomainName =
                                fullyQualifiedDomainName.val],
                 <<call>>)

\* Mutant of deployARMTemplateNewServer: resource group and location are
\* passed in each other's place.
deployARMTemplateNewServerSwapped(pc, pp, spc, plan, res) ==
    LET armTemplateParameters == buildARMTemplateParameters(plan, pc, pp)
        call == DeployCall(pc.ARMDeploymentName, spc.Location,
                           spc.ResourceGroup, "armTemplateNewServerBytes",
                           armTemplateParameters, spc.Tags)
        fullyQualifiedDomainName ==
            Lookup(res.outputs, "fullyQualifiedDomainName")
    IN  IF res.err # NoError
        THEN DeployFailure(NewError("error deploying ARM template", << >>),
                           pc, <<call>>)
        ELSE IF fullyQualifiedDomainName.type # "string"
        THEN DeployFailure(
                 NewError("error retrieving fully qualified domain name from deployment",
                          << >>), pc, <<call>>)
        ELSE DeploySuccess(
                 [pc EXCEPT !.FullyQualifiedDomainName =
                                fullyQualifiedDomainName.val],
                 <<call>>)

deployARMTemplateNewServer(pc, pp, spc, plan, res) ==
    LET armTemplateParameters == buildARMTemplateParameters(plan, pc, pp)
        call == DeployCall(pc.ARMDeploymentName, spc.ResourceGroup,
                           spc.Location, "armTemplateNewServerBytes",
                           armTemplateParameters, spc.Tags)
        fullyQualifiedDomainName ==
            Lookup(res.outputs, "fullyQualifiedDomainName")
    IN  IF res.err # NoError
        THEN DeployFailure(NewError("error deploying ARM template", << >>),
                           pc, <<call>>)
        ELSE IF fullyQualifiedDomainName.type # "string"
        THEN DeployFailure(
                 NewError("error retrieving fully qualified domain name from deployment",
                          << >>), pc, <<call>>)
        ELSE DeploySuccess(
                 [pc EXCEPT !.FullyQualifiedDomainName =
                                fullyQualifiedDomainName.val],
                 <<call>>)

\* The five parameters of the existing-server deployment (lines 241-249).
existingServerParameters(pc, plan) ==
    [serverName |-> StringValue(pc.ServerName),
     databaseName |-> StringValue(pc.DatabaseName),
     edition |-> Lookup(plan.Extended, "edition"),
     requestedServiceObjectiveName |->
         Lookup(plan.Extended, "requestedServiceObjectiveName"),
     maxSizeBytes |-> Lookup(plan.Extended, "maxSizeBytes")]

\* Mutant of deployARMTemplateExistingServer: the entry is looked up under
\* the context's server name.
deployARMTemplateExistingServerContextName(pc, pp, spc, plan, servers, res) ==
    IF pc.ServerName \notin DOMAIN servers
    THEN DeployFailure(
             NewError("can't find serverName in Azure SQL Server configuration",
                      pc.ServerName), pc, << >>)
    ELSE
    LET server == servers[pc.ServerName]
        call == DeployCall(pc.ARMDeploymentName, server.ResourceGroupName,
                    server.Location, "armTemplateExistingServerBytes",
                    existingServerParameters(pc, plan), spc.Tags)
    IN  IF res.err # NoError
        THEN DeployFailure(NewError("error deploying ARM template", << >>),
                           pc, <<call>>)
        ELSE DeploySuccess(pc, <<call>>)

\* Mutant of deployARMTemplateExistingServer: the request's resource group
\* and location are used.
deployARMTemplateExistingServerRequestTarget(pc, pp, spc, plan, servers, res) ==
    LET call == DeployCall(pc.ARMDeploymentName, spc.ResourceGroup,
                    spc.Location, "armTemplateExistingServerBytes",
                    existingServerParameters(pc, plan), spc.Tags)
    IN  IF res.err # NoError
        THEN DeployFailure(NewError("error deploying ARM template", << >>),
                           pc, <<call>>)
        ELSE DeploySuccess(pc, <<call>>)

deployARMTemplateExistingServer(pc, pp, spc, plan, servers, res) ==
    IF pp.ServerName \notin DOMAIN servers
    THEN DeployFailure(
             NewError("can't find serverName in Azure SQL Server configuration",
                      pp.ServerName), pc, << >>)
    ELSE
    LET server == servers[pp.ServerName]
        call == DeployCall(pc.ARMDeploymentName, server.ResourceGroupName,
                    server.Location, "armTemplateExistingServerBytes",
                    existingServerParameters(pc, plan), spc.Tags)
    IN  IF res.err # NoError
        THEN DeployFailure(NewError("error deploying ARM template", << >>),
                           pc, <<call>>)
        ELSE DeploySuccess(pc, <<call>>)

\* Mutant of deployARMTemplate: the branches taken for the wrong flag.
deployARMTemplateInverted(pc, pp, spc, plan, servers, res) ==
    IF ~pc.IsNewServer
    THEN deployARMTemplateNewServer(pc, pp, spc, plan, res)
    ELSE deployARMTemplateExistingServer(pc, pp, spc, plan, servers, res)

deployARMTemplate(pc, pp, spc, plan, servers, res) ==
    IF pc.IsNewServer
    THEN deployARMTemplateNewServer(pc, pp, spc, plan, res)
    ELSE deployARMTemplateExistingServer(pc, pp, spc, plan, servers, res)

\* ------------------------------------------------------------------------
\* Inputs: registries, plans, requests.

\* Firewall addresses a request may carry.
Addresses ==
    { EmptyString,
      <<"1", "0", ".", "0", ".", "0", ".", "1">>,
      <<"1", "0", ".", "0", ".", "0", ".", "2", "5", "5">>,
      <<"1", "0", ".", "0", ".", "1", ".", "0">>,
      <<"1", ".", "2", ".", "3", ".", "4">>,
      <<"1", ".", "2", ".", "3", ".", "1", "0">>,
      <<"2", "5", "6", ".", "0", ".", "0", ".", "1">>,
      <<"a", "b", "c">>,
      <<":", ":", "1">>,
      <<":", ":", "f", "f", "f", "f", ":", "1", ".", "2", ".", "3", ".", "9">> }

\* Server names a request may carry: none, two registry keys, an unknown one.
ServerNames ==
    { EmptyString, <<"p", "1">>, <<"a", "l">>, <<"g", "h">> }

ServerConfig(name, group, location, login, password) ==
    [ServerName |-> name, ResourceGroupName |-> group, Location |-> location,
     AdministratorLogin |-> login, AdministratorLoginPassword |-> password]

\* Config.Servers (types.go 54-56): each entry under its own name, or one
\* entry under a key that is not its ServerName.
Registries ==
    { [Servers |->
          (<<"p", "1">> :> ServerConfig(<<"p", "1">>, <<"r", "g", "1">>,
                               <<"e", "a", "s", "t">>, <<"s", "a">>, <<"x", "1">>))
          @@ (<<"a", "l">> :> ServerConfig(<<"a", "l">>, <<"r", "g", "2">>,
                                  <<"w", "e", "s", "t">>, <<"s", "b">>,
                                  <<"x", "2">>))],
      [Servers |->
          (<<"p", "1">> :> ServerConfig(<<"p", "1">>, <<"r", "g", "1">>,
                               <<"e", "a", "s", "t">>, <<"s", "a">>, <<"x", "1">>))
          @@ (<<"a", "l">> :> ServerConfig(<<"s", "2">>, <<"r", "g", "2">>,
                                  <<"w", "e", "s", "t">>, <<"s", "b">>,
                                  <<"x", "2">>))] }

\* An instance to provision: its plan (plan.GetProperties(), with all three
\* extended properties or only the edition) and its
\* instance.StandardProvisioningContext.
Instances ==
    { [plan |-> [Extended |->
                    [edition |-> StringValue(<<"B", "a", "s", "i", "c">>),
                     requestedServiceObjectiveName |-> StringValue(<<"S", "0">>),
                     maxSizeBytes |-> StringValue(<<"2", "G">>)]],
       spc |-> [ResourceGroup |-> <<"r", "g", "9">>,
                Location |-> <<"n", "o", "r", "t", "h">>,
                Tags |-> ("team" :> <<"d", "b">>)]],
      [plan |-> [Extended |->
                    [edition |-> StringValue(<<"B", "a", "s", "i", "c">>)]],
       spc |-> [ResourceGroup |-> <<"r", "g", "1">>,
                Location |-> <<"w", "e", "s", "t">>,
                Tags |-> EmptyMap]] }

\* Placeholders in the record of a step that made no such call.
NoConfig == [err |-> NoError, Environment |-> ""]
NoResult == [err |-> NoError, outputs |-> EmptyMap]

\* ------------------------------------------------------------------------
\* State.

VARIABLES
    mssqlConfig,    \* s.mssqlConfig: the server registry
    plan,           \* the service plan of the request
    pp,             \* instance.ProvisioningParameters: the request
    spc,            \* instance.StandardProvisioningContext
    stage,          \* "received", "rejected", "running", "failed", "succeeded"
                    \* ("built" under SpecBuild)
    validationErr,  \* what ValidateProvisioningParameters returned
    stepIdx,        \* index in GetProvisioner of the step to run next
    attempts,       \* runs of the pipeline started so far
    pc,             \* the context object instance.ProvisioningContext points to
    persisted,      \* the context the runner stored last
    rnd,            \* generator draws made so far
    deployCalls,    \* every invocation of the deployment engine, in order
    armTemplateParameters,  \* the map buildARMTemplateParameters built last
    history         \* every step invocation, in order

vars == <<mssqlConfig, plan, pp, spc, stage, validationErr, stepIdx, attempts,
          pc, persisted, rnd, deployCalls, armTemplateParameters, history>>

inputs == <<mssqlConfig, plan, pp, spc>>

Init ==
    /\ mssqlConfig \in Registries
    /\ \E inst \in Instances : plan = inst.plan /\ spc = inst.spc
    /\ pp \in [ServerName : ServerNames, FirewallIPStart : Addresses,
               FirewallIPEnd : Addresses]
    /\ stage = "received"
    /\ validationErr = NoError
    /\ stepIdx = 1
    /\ attempts = 0
    /\ pc = GetEmptyProvisioningContext
    /\ persisted = GetEmptyProvisioningContext
    /\ rnd = 0
    /\ deployCalls = << >>
    /\ armTemplateParameters = EmptyMap
    /\ history = << >>

\* The broker validates the request once; an accepted request starts the
\* pipeline on an empty context.
Validate ==
    /\ stage = "received"
    /\ LET err == ValidateProvisioningParameters(pp, mssqlConfig.Servers)
       IN  /\ validationErr' = err
           /\ stage' = IF err = NoError THEN "running" ELSE "rejected"
           /\ attempts' = IF err = NoError THEN 1 ELSE 0
    /\ UNCHANGED <<inputs, stepIdx, pc, persisted, rnd, deployCalls,
                   armTemplateParameters, history>>

\* The runner's bookkeeping after a step returned r: a returned context is
\* stored and the next step is due; a failure stops the run.
StepDone(name, r, cfg, res, draws, calls) ==
    /\ pc' = r.mem
    /\ history' = Append(history,
           [step |-> name, attempt |-> attempts, in |-> pc, ok |-> r.ok,
            ctx |-> r.ctx, err |-> r.err, mem |-> r.mem, cfg |-> cfg,
            res |-> res, draws |-> draws, calls |-> calls])
    /\ IF r.ok
       THEN /\ persisted' = r.ctx
            /\ stepIdx' = stepIdx + 1
            /\ stage' = IF stepIdx + 1 > Len(GetProvisioner)
                        THEN "succeeded" ELSE "running"
       ELSE /\ stage' = "failed"
            /\ UNCHANGED <<persisted, stepIdx>>

RunPreProvision ==
    /\ stage = "running"
    /\ GetProvisioner[stepIdx] = "preProvision"
    /\ \E cfg \in IF pp.ServerName = EmptyString
                  THEN {NoConfig} ELSE GetConfigResults :
          LET r == preProvision(pc, pp, mssqlConfig.Servers, rnd, cfg)
          IN  /\ StepDone("preProvision", r, cfg, NoResult, r.rnd - rnd, << >>)
              /\ rnd' = r.rnd
    /\ UNCHANGED <<inputs, validationErr, attempts, deployCalls,
                   armTemplateParameters>>

RunDeployARMTemplate ==
    /\ stage = "running"
    /\ GetProvisioner[stepIdx] = "deployARMTemplate"
    /\ \E res \in EngineResults :
          LET r == deployARMTemplate(pc, pp, spc, plan, mssqlConfig.Servers, res)
          IN  /\ StepDone("deployARMTemplate", r, NoConfig, res, 0, r.calls)
              /\ deployCalls' = deployCalls \o r.calls
    /\ armTemplateParameters' =
           IF pc.IsNewServer THEN buildARMTemplateParameters(plan, pc, pp)
           ELSE armTemplateParameters
    /\ UNCHANGED <<inputs, validationErr, attempts, rnd>>

\* The runner re-invokes the failed step with the stored context.
Resume ==
    /\ stage = "failed"
    /\ attempts < MaxAttempts
    /\ attempts' = attempts + 1
    /\ stage' = "running"
    /\ pc' = persisted
    /\ UNCHANGED <<inputs, validationErr, stepIdx, persisted, rnd, deployCalls,
                   armTemplateParameters, history>>

\* The runner runs the pipeline again from its first step with the stored
\* context, after a failed run or a completed one.
Restart ==
    /\ stage \in {"failed", "succeeded"}
    /\ attempts < MaxAttempts
    /\ attempts' = attempts + 1
    /\ stage' = "running"
    /\ stepIdx' = 1
    /\ pc' = persisted
    /\ UNCHANGED <<inputs, validationErr, persisted, rnd, deployCalls,
                   armTemplateParameters, history>>

Next ==
    \/ Validate
    \/ RunPreProvision
    \/ RunDeployARMTemplate
    \/ Resume
    \/ Restart

Spec == Init /\ [][Next]_vars

\* ------------------------------------------------------------------------
\* buildARMTemplateParameters on its own: any request, validated or not, and
\* any of a few contexts.

BuildContexts ==
    { GetEmptyProvisioningContext,
      preProvisionNewServer(GetEmptyProvisioningContext, 0).ctx,
      [GetEmptyProvisioningContext EXCEPT
          !.ARMDeploymentName = NewV4String(1),
          !.ServerName = <<"p", "1">>,
          !.AdministratorLogin = <<"s", "a">>,
          !.DatabaseName = NewIdentifier(2)] }

InitBuild ==
    /\ mssqlConfig \in Registries
    /\ \E inst \in Instances : plan = inst.plan /\ spc = inst.spc
    /\ pp \in [ServerName : ServerNames, FirewallIPStart : Addresses,
               FirewallIPEnd : Addresses]
    /\ pc \in BuildContexts
    /\ persisted = pc
    /\ stage = "received"
    /\ validationErr = NoError
    /\ stepIdx = 1
    /\ attempts = 0
    /\ rnd = 0
    /\ deployCalls = << >>
    /\ armTemplateParameters = EmptyMap
    /\ history = << >>

BuildParameters ==
    /\ stage = "received"
    /\ stage' = "built"
    /\ armTemplateParameters' = buildARMTemplateParameters(plan, pc, pp)
    /\ UNCHANGED <<inputs, validationErr, stepIdx, attempts, pc, persisted, rnd,
                   deployCalls, history>>

SpecBuild == InitBuild /\ [][BuildParameters]_vars

\* ========================================================================
\* Properties.

\* Dotted-decimal IPv4, stated without the parser: three dots, four parts of
\* one to three digits without a leading zero, each at most 255.
DigitValue(c) == CHOOSE n \in 0..9 : Digits[n + 1] = c

IsDecimalOctet(part) ==
    /\ Len(part) \in 1..3
    /\ \A k \in 1..Len(part) : part[k] \in {Digits[n] : n \in 1..10}
    /\ Len(part) > 1 => part[1] # "0"
    /\ (Len(part) = 3 =>
           100 * DigitValue(part[1]) + 10 * DigitValue(part[2])
               + DigitValue(part[3]) <= 255)

OctetValue(part) ==
    CASE Len(part) = 1 -> DigitValue(part[1])
      [] Len(part) = 2 -> 10 * DigitValue(part[1]) + DigitValue(part[2])
      [] Len(part) = 3 -> 100 * DigitValue(part[1]) + 10 * DigitValue(part[2])
                              + DigitValue(part[3])

DotPositions(str) == {k \in 1..Len(str) : str[k] = "."}

\* The four parts of a string with three dots.
PartsOf(str) ==
    LET dots == DotPositions(str)
        d1 == CHOOSE d \in dots : \A e \in dots : d <= e
        d3 == CHOOSE d \in dots : \A e \in dots : d >= e
        d2 == CHOOSE d \in dots : d # d1 /\ d # d3
    IN  <<SubSeq(str, 1, d1 - 1), SubSeq(str, d1 + 1, d2 - 1),
          SubSeq(str, d2 + 1, d3 - 1), SubSeq(str, d3 + 1, Len(str))>>

IsIPv4String(str) ==
    /\ Cardinality(DotPositions(str)) = 3
    /\ \A k \in 1..4 : IsDecimalOctet(PartsOf(str)[k])

OctetsOf(str) == [k \in 1..4 |-> OctetValue(PartsOf(str)[k])]

\* a <= b in the lexicographic order of two 4-byte sequences
LexLeq(a, b) ==
    \/ a = b
    \/ \E k \in 1..4 : a[k] < b[k] /\ \A j \in 1..(k - 1) : a[j] = b[j]

Validated == stage \in {"rejected", "running", "failed", "succeeded"}
Accepted == Validated /\ validationErr = NoError
ServerNameOK ==
    pp.ServerName = EmptyString \/ pp.ServerName \in DOMAIN mssqlConfig.Servers

\* C1: every request the validator accepts has firewall bounds that are empty
\* or well-formed IPv4 strings (a non-IPv4 bound, IPv6 included, is rejected).
C1_AcceptedBoundsAreIPv4 ==
    Accepted =>
        /\ pp.FirewallIPStart # EmptyString => IsIPv4String(pp.FirewallIPStart)
        /\ pp.FirewallIPEnd # EmptyString => IsIPv4String(pp.FirewallIPEnd)

\* C2: with the server name empty or registered and both bounds valid IPv4
\* strings, validation succeeds iff start <= end in the lexicographic order of
\* the four octets; otherwise the error is on firewallEndIPAddress.
C2_RangeOrder ==
    (/\ Validated
     /\ ServerNameOK
     /\ IsIPv4String(pp.FirewallIPStart)
     /\ IsIPv4String(pp.FirewallIPEnd))
    => LET ordered == LexLeq(OctetsOf(pp.FirewallIPStart),
                             OctetsOf(pp.FirewallIPEnd))
       IN  /\ (validationErr = NoError) <=> ordered
           /\ ~ordered => validationErr.field = "firewallEndIPAddress"

C2_Witness ==
    /\ stage = "rejected"
    /\ ServerNameOK
    /\ IsIPv4String(pp.FirewallIPStart)
    /\ IsIPv4String(pp.FirewallIPEnd)
    /\ validationErr.field = "firewallEndIPAddress"

\* C3: a request that sets exactly one firewall bound is rejected; with the
\* server name empty or registered the error is on the missing bound and its
\* message names the bound that is set.
C3_OneBoundRejected ==
    (Validated /\ (pp.FirewallIPStart = EmptyString) # (pp.FirewallIPEnd = EmptyString))
    => /\ validationErr # NoError
       /\ ServerNameOK =>
             IF pp.FirewallIPStart = EmptyString
             THEN /\ validationErr.field = "firewallStartIPAddress"
                  /\ validationErr.issue =
                         "must be set when firewallEndIPAddress is set"
             ELSE /\ validationErr.field = "firewallEndIPAddress"
                  /\ validationErr.issue =
                         "must be set when firewallStartIPAddress is set"

C3_Witness ==
    /\ stage = "rejected"
    /\ ServerNameOK
    /\ pp.FirewallIPStart = EmptyString
    /\ pp.FirewallIPEnd # EmptyString
    /\ validationErr.field = "firewallStartIPAddress"

\* C4: a request whose non-empty server name is not a registry key is rejected
\* with an error on serverName, whatever its firewall fields hold.
C4_UnknownServerRejected ==
    (/\ Validated
     /\ pp.ServerName # EmptyString
     /\ pp.ServerName \notin DOMAIN mssqlConfig.Servers)
    => /\ stage = "rejected"
       /\ validationErr.field = "serverName"
       /\ validationErr.arg = pp.ServerName

C4_Witness ==
    /\ stage = "rejected"
    /\ pp.ServerName \notin DOMAIN mssqlConfig.Servers
    /\ pp.FirewallIPStart = EmptyString
    /\ pp.FirewallIPEnd # EmptyString
    /\ validationErr.field = "serverName"

\* ------------------------------------------------------------------------
\* Step invocations.

Calls(name) == {i \in DOMAIN history : history[i].step = name}

\* The five values the new-server path generates.
NewServerValues(c) ==
    {c.ARMDeploymentName, c.ServerName, c.AdministratorLogin,
     c.AdministratorLoginPassword, c.DatabaseName}

\* The two values the existing-server path generates.
ExistingServerValues(c) == {c.ARMDeploymentName, c.DatabaseName}

\* The successful preProvision whose context invocation i works on.
LastPreProvision(i) ==
    history[CHOOSE j \in Calls("preProvision") :
                /\ j < i
                /\ history[j].ok
                /\ \A k \in Calls("preProvision") :
                       (k < i /\ history[k].ok) => k <= j]

SevenKeys ==
    {"serverName", "administratorLogin", "administratorLoginPassword",
     "databaseName", "edition", "requestedServiceObjectiveName", "maxSizeBytes"}

FirewallKeys == {"firewallStartIpAddress", "firewallEndIpAddress"}

\* C5: for a request without server name, preProvision on the empty context
\* succeeds with the new-server flag set, five generated values that are
\* non-empty, distinct from one another and from those of every other
\* preProvision call, and no fully-qualified domain name.
C5_NewServerContext ==
    \A i \in Calls("preProvision") :
        LET h == history[i]
        IN  (pp.ServerName = EmptyString /\ h.in = GetEmptyProvisioningContext)
            => /\ h.ok
               /\ h.ctx.IsNewServer
               /\ h.draws = 5
               /\ EmptyString \notin NewServerValues(h.ctx)
               /\ Cardinality(NewServerValues(h.ctx)) = 5
               /\ h.ctx.FullyQualifiedDomainName = EmptyString
               /\ \A j \in Calls("preProvision") \ {i} :
                      NewServerValues(h.ctx)
                          \cap NewServerValues(history[j].mem) = {}

C5_Witness ==
    /\ pp.ServerName = EmptyString
    /\ \E i, j \in Calls("preProvision") :
          /\ i < j
          /\ history[i].in = GetEmptyProvisioningContext
          /\ history[j].ok

\* C6: for a request naming a registered server, a context returned by
\* preProvision has the new-server flag cleared, the registry entry's
\* administrator login and password (two values drawn, none for credentials),
\* a fresh non-empty deployment identifier and database name, and the domain
\* name <server name of the context>.<DNS suffix of the resolved environment>.
C6_ExistingServerContext ==
    \A i \in Calls("preProvision") :
        LET h == history[i]
        IN  (pp.ServerName \in DOMAIN mssqlConfig.Servers /\ h.ok)
            => LET server == mssqlConfig.Servers[pp.ServerName]
               IN  /\ ~h.ctx.IsNewServer
                   /\ h.ctx.AdministratorLogin = server.AdministratorLogin
                   /\ h.ctx.AdministratorLoginPassword =
                          server.AdministratorLoginPassword
                   /\ h.draws = 2
                   /\ EmptyString \notin ExistingServerValues(h.ctx)
                   /\ Cardinality(ExistingServerValues(h.ctx)) = 2
                   /\ ExistingServerValues(h.ctx)
                          \cap ExistingServerValues(h.in) = {}
                   /\ \A j \in Calls("preProvision") \ {i} :
                          ExistingServerValues(h.ctx)
                              \cap ExistingServerValues(history[j].mem) = {}
                   /\ h.cfg.Environment \in DOMAIN SQLDatabaseDNSSuffix
                   /\ h.ctx.FullyQualifiedDomainName =
                          h.ctx.ServerName \o <<".">>
                              \o SQLDatabaseDNSSuffix[h.cfg.Environment]

C6_Witness ==
    /\ pp.ServerName \in DOMAIN mssqlConfig.Servers
    /\ \E i, j \in Calls("preProvision") :
          i < j /\ history[i].ok /\ history[j].ok

\* C7 as claimed: in a new-server run whose request sets both firewall
\* bounds, the engine receives exactly 7 parameters, both addresses included.
C7_SevenKeysWithFirewall ==
    \A k \in DOMAIN deployCalls :
        (/\ pp.ServerName = EmptyString
         /\ pp.FirewallIPStart # EmptyString
         /\ pp.FirewallIPEnd # EmptyString)
        => /\ Cardinality(DOMAIN deployCalls[k].armParams) = 7
           /\ FirewallKeys \subseteq DOMAIN deployCalls[k].armParams

\* C7 as amended: in a new-server run whose request sets both firewall
\* bounds, the engine receives exactly 9 parameters: the seven that are always
\* built and both firewall addresses.
C7_NineKeysWithFirewall ==
    \A k \in DOMAIN deployCalls :
        (/\ pp.ServerName = EmptyString
         /\ pp.FirewallIPStart # EmptyString
         /\ pp.FirewallIPEnd # EmptyString)
        => /\ Cardinality(DOMAIN deployCalls[k].armParams) = 9
           /\ DOMAIN deployCalls[k].armParams = SevenKeys \cup FirewallKeys

C7_Witness ==
    /\ pp.ServerName = EmptyString
    /\ pp.FirewallIPStart # EmptyString
    /\ pp.FirewallIPEnd # EmptyString
    /\ stage = "succeeded"
    /\ Len(deployCalls) > 0

\* C8: the built map has key firewallStartIpAddress (firewallEndIpAddress) iff
\* the request's start (end) is non-empty, then with the request's value; the
\* seven other keys are always there.
C8_FirewallKeysIffSet ==
    stage = "built" =>
        LET p == armTemplateParameters
        IN  /\ ("firewallStartIpAddress" \in DOMAIN p)
                   <=> (pp.FirewallIPStart # EmptyString)
            /\ ("firewallEndIpAddress" \in DOMAIN p)
                   <=> (pp.FirewallIPEnd # EmptyString)
            /\ pp.FirewallIPStart # EmptyString =>
                   p["firewallStartIpAddress"] = StringValue(pp.FirewallIPStart)
            /\ pp.FirewallIPEnd # EmptyString =>
                   p["firewallEndIpAddress"] = StringValue(pp.FirewallIPEnd)
            /\ SevenKeys \subseteq DOMAIN p

C8_Witness ==
    /\ stage = "built"
    /\ pp.FirewallIPStart # EmptyString
    /\ pp.FirewallIPEnd = EmptyString
    /\ "firewallStartIpAddress" \in DOMAIN armTemplateParameters

\* C9: in the new-server scenario deployARMTemplate calls the engine with the
\* new-server template, the deployment identifier preProvision chose and the
\* request's resource group, location and tags; on success the returned
\* context is the incoming one with the domain name set to the engine's
\* fullyQualifiedDomainName output.
C9_NewServerDeploy ==
    \A i \in Calls("deployARMTemplate") :
        LET h == history[i]
        IN  pp.ServerName = EmptyString
            => /\ Len(h.calls) = 1
               /\ h.calls[1].template = "armTemplateNewServerBytes"
               /\ h.calls[1].deploymentName =
                      LastPreProvision(i).ctx.ARMDeploymentName
               /\ h.calls[1].resourceGroup = spc.ResourceGroup
               /\ h.calls[1].location = spc.Location
               /\ h.calls[1].tags = spc.Tags
               /\ h.ok =>
                     /\ "fullyQualifiedDomainName" \in DOMAIN h.res.outputs
                     /\ h.ctx =
                            [h.in EXCEPT !.FullyQualifiedDomainName =
                                h.res.outputs["fullyQualifiedDomainName"].val]

C9_Witness ==
    /\ pp.ServerName = EmptyString
    /\ \E i \in Calls("deployARMTemplate") :
          /\ history[i].ok
          /\ history[i].ctx.FullyQualifiedDomainName # EmptyString
          /\ history[i].in.FullyQualifiedDomainName = EmptyString

\* C10: in the existing-server scenario deployARMTemplate calls the engine
\* with the existing-server template, the registry entry's resource group and
\* location, and exactly the five parameters serverName, databaseName,
\* edition, requestedServiceObjectiveName, maxSizeBytes; on success the
\* returned context is the incoming one, domain name of preProvision included.
C10_ExistingServerDeploy ==
    \A i \in Calls("deployARMTemplate") :
        LET h == history[i]
        IN  pp.ServerName # EmptyString
            => /\ Len(h.calls) = 1
               /\ h.calls[1].template = "armTemplateExistingServerBytes"
               /\ h.calls[1].resourceGroup =
                      mssqlConfig.Servers[pp.ServerName].ResourceGroupName
               /\ h.calls[1].location =
                      mssqlConfig.Servers[pp.ServerName].Location
               /\ DOMAIN h.calls[1].armParams =
                      {"serverName", "databaseName", "edition",
                       "requestedServiceObjectiveName", "maxSizeBytes"}
               /\ h.ok =>
                     /\ h.ctx = h.in
                     /\ h.ctx.FullyQualifiedDomainName =
                            LastPreProvision(i).ctx.FullyQualifiedDomainName

C10_Witness ==
    /\ pp.ServerName \in DOMAIN mssqlConfig.Servers
    /\ pp.FirewallIPStart # EmptyString
    /\ spc.ResourceGroup # mssqlConfig.Servers[pp.ServerName].ResourceGroupName
    /\ \E i \in Calls("deployARMTemplate") : history[i].ok

\* C11: a step that returns a failure leaves the instance's context object
\* exactly as it was when the step was invoked.
C11_FailedStepWritesNothing ==
    \A i \in DOMAIN history :
        ~history[i].ok => history[i].mem = history[i].in

\* C12: every deployARMTemplate execution invokes the engine exactly once, an
\* engine error included (the step then fails), and the engine is invoked by
\* nothing else: preProvision adds no invocation.
C12_OneEngineCallPerAttempt ==
    /\ \A i \in Calls("deployARMTemplate") :
          /\ Len(history[i].calls) = 1
          /\ history[i].res.err # NoError => ~history[i].ok
    /\ Len(deployCalls) = Cardinality(Calls("deployARMTemplate"))

C12_Witness ==
    /\ Cardinality(Calls("deployARMTemplate")) = 2
    /\ Cardinality(Calls("preProvision")) = 2
    /\ \E i \in Calls("deployARMTemplate") :
          history[i].res.err # NoError /\ ~history[i].ok

\* C13: the steps are preProvision then deployARMTemplate, and every engine
\* invocation comes after a preProvision that returned successfully.
C13_EngineAfterPreProvision ==
    /\ GetProvisioner = <<"preProvision", "deployARMTemplate">>
    /\ \A i \in DOMAIN history :
          Len(history[i].calls) > 0 =>
              \E j \in Calls("preProvision") : j < i /\ history[j].ok
    /\ Len(deployCalls) > 0 =>
          \E j \in Calls("preProvision") : history[j].ok

C13_Witness ==
    /\ Len(deployCalls) > 0
    /\ history[1].step = "preProvision"
    /\ history[2].step = "deployARMTemplate"

\* C14: preProvision's result does not depend on the context it is given: in
\* the new-server path, on whatever context a prior attempt left, the five
\* values are all newly generated, none is retained, and the domain name is
\* unset, as on the empty context.
C14_PreProvisionIgnoresContext ==
    \A i \in Calls("preProvision") :
        LET h == history[i]
        IN  pp.ServerName = EmptyString
            => /\ h.ok
               /\ h.draws = 5
               /\ NewServerValues(h.ctx) \cap NewServerValues(h.in) = {}
               /\ h.ctx.FullyQualifiedDomainName = EmptyString

\* C15: in the new-server scenario, when the engine returns an error, or
\* succeeds without a string under fullyQualifiedDomainName, deployARMTemplate
\* fails, returns no context and does not set the context's domain name.
C15_BadDeploymentFails ==
    \A i \in Calls("deployARMTemplate") :
        LET h == history[i]
        IN  (/\ pp.ServerName = EmptyString
             /\ \/ h.res.err # NoError
                \/ "fullyQualifiedDomainName" \notin DOMAIN h.res.outputs
                \/ h.res.outputs["fullyQualifiedDomainName"].type # "string")
            => /\ ~h.ok
               /\ h.err # NoError
               /\ h.ctx = GetEmptyProvisioningContext
               /\ h.mem.FullyQualifiedDomainName =
                      h.in.FullyQualifiedDomainName
               /\ (i = 2 => h.mem.FullyQualifiedDomainName = EmptyString)

C15_MalformedOutput(i) ==
    /\ history[i].res.err = NoError
    /\ ~history[i].ok

C15_Witness ==
    /\ pp.ServerName = EmptyString
    /\ \E i, j \in Calls("deployARMTemplate") :
          /\ history[i].res.err # NoError
          /\ C15_MalformedOutput(j)

\* C16: the flag preProvision writes is set exactly for a request without
\* server name, and deployARMTemplate uses the new-server template exactly for
\* such a request and the existing-server template for every other.
C16_SameScenarioInBothSteps ==
    /\ \A i \in Calls("preProvision") :
          history[i].ok =>
              (history[i].ctx.IsNewServer <=> pp.ServerName = EmptyString)
    /\ \A k \in DOMAIN deployCalls :
          /\ (deployCalls[k].template = "armTemplateNewServerBytes")
                 <=> (pp.ServerName = EmptyString)
          /\ (deployCalls[k].template = "armTemplateExistingServerBytes")
                 <=> (pp.ServerName # EmptyString)
    /\ Cardinality(Calls("deployARMTemplate")) = Len(deployCalls)

C16_Witness ==
    /\ \E i \in Calls("preProvision") : ~history[i].ctx.IsNewServer /\ history[i].ok
    /\ Len(deployCalls) = 2
    /\ deployCalls[2].template = "armTemplateExistingServerBytes"

CantFindServerName == "can't find serverName in Azure SQL Server configuration"

\* C17: the registry never changes, and for a request that passed validation
\* and preProvision the registry lookup of deployARMTemplate succeeds: no
\* deployARMTemplate fails with "can't find serverName", each reaches the
\* engine.
C17_DeployLookupSucceeds ==
    /\ mssqlConfig \in Registries
    /\ \A i \in Calls("deployARMTemplate") :
          /\ history[i].err.issue # CantFindServerName
          /\ pp.ServerName # EmptyString =>
                /\ pp.ServerName \in DOMAIN mssqlConfig.Servers
                /\ Len(history[i].calls) = 1

C17_Witness ==
    /\ pp.ServerName = <<"a", "l">>
    /\ mssqlConfig.Servers[pp.ServerName].ServerName # pp.ServerName
    /\ validationErr = NoError
    /\ \E i \in Calls("deployARMTemplate") : history[i].ok

\* The serverName parameter of every engine invocation is v.
ServerNamePassedIs(v) ==
    \A k \in DOMAIN deployCalls :
        deployCalls[k].armParams["serverName"] = StringValue(v)

\* C18 as claimed: in the existing-server scenario the server name in the
\* context, in the domain name and in the serverName parameter is the server
\* name of the request, whatever the registry.
C18_RequestServerNameUsed ==
    pp.ServerName # EmptyString =>
        /\ \A i \in Calls("preProvision") :
              history[i].ok =>
                  /\ history[i].ctx.ServerName = pp.ServerName
                  /\ SubSeq(history[i].ctx.FullyQualifiedDomainName, 1,
                            Len(pp.ServerName) + 1) = pp.ServerName \o <<".">>
        /\ ServerNamePassedIs(pp.ServerName)

\* C18 as amended: that server name is the ServerName field of the registry
\* entry found under the request's server name, hence the request's server
\* name when the entry is keyed by its own name.
C18_EntryServerNameUsed ==
    (Accepted /\ pp.ServerName # EmptyString) =>
        LET server == mssqlConfig.Servers[pp.ServerName]
        IN  /\ \A i \in Calls("preProvision") :
                  history[i].ok =>
                      /\ history[i].ctx.ServerName = server.ServerName
                      /\ SubSeq(history[i].ctx.FullyQualifiedDomainName, 1,
                                Len(server.ServerName) + 1)
                             = server.ServerName \o <<".">>
            /\ ServerNamePassedIs(server.ServerName)
            /\ server.ServerName = pp.ServerName =>
                  /\ ServerNamePassedIs(pp.ServerName)
                  /\ \A i \in Calls("preProvision") :
                        history[i].ok =>
                            history[i].ctx.ServerName = pp.ServerName

C18_Witness ==
    /\ Accepted
    /\ pp.ServerName = <<"a", "l">>
    /\ mssqlConfig.Servers[pp.ServerName].ServerName = <<"s", "2">>
    /\ stage = "succeeded"
    /\ Len(deployCalls) > 0

\* C19: for an accepted request run through both steps without server name,
\* the parameters given to the engine hold both firewall keys or neither,
\* and no firewall key holds the empty string.
C19_FirewallKeysTogether ==
    \A k \in DOMAIN deployCalls :
        LET p == deployCalls[k].armParams
        IN  pp.ServerName = EmptyString =>
                /\ ("firewallStartIpAddress" \in DOMAIN p)
                       <=> ("firewallEndIpAddress" \in DOMAIN p)
                /\ \A key \in FirewallKeys \cap DOMAIN p :
                       p[key] # StringValue(EmptyString)

C19_Witness ==
    /\ pp.ServerName = EmptyString
    /\ \E k \in DOMAIN deployCalls :
          FirewallKeys \subseteq DOMAIN deployCalls[k].armParams
    /\ stage = "succeeded"
====
